---------------------------- MODULE Spec2Model ----------------------------
(***************************************************************************)
(* A model of the ICP token wallet canister (src/src/main.rs).             *)
(*                                                                         *)
(* The canister keeps four thread-local cells: TOKEN, WALLETS,             *)
(* TRANSFER_EVENTS and OWNER.  Every update call runs to completion on     *)
(* them, so every handler is one action.  A handler that returns Err does  *)
(* not roll anything back: whatever it wrote before the early return       *)
(* stays written, and the handlers below are translated statement by       *)
(* statement so that such partial writes are part of the model.            *)
(*                                                                         *)
(* A handler is an operator from the cells and the call's inputs to the    *)
(* cells it leaves and the value it returns; its action commits the cells. *)
(* A property of "every call in every reachable state" is an invariant     *)
(* that applies the handler to the state at hand for every input.          *)
(*                                                                         *)
(* Numbers.  TLC's integers are 32 bits wide, the canister's amounts are   *)
(* u128.  The range 0 .. u128::MAX is scaled to 0 .. U128_MAX and the      *)
(* initial supply 10^18 to INITIAL_SUPPLY, keeping the relation of the     *)
(* source: 0 < INITIAL_SUPPLY < U128_MAX.  checked_add and checked_sub     *)
(* are exact on the scaled range.                                          *)
(***************************************************************************)
EXTENDS Integers, Sequences, FiniteSets, TLC

\* ------------------------------------------------------------------ bounds

\* The largest host time the model lets the clock reach.
MaxTime == 1

\* The longest transfer ledger the model explores.
MaxEvents == 1

\* ------------------------------------------------------- program constants

\* u128::MAX, the largest value of the type of every amount (scaled, see above).
U128_MAX == 3

\* TOKEN's total_supply at construction (scaled, see above).
INITIAL_SUPPLY == 1

\* The identities that call the canister.
Principals == {"anonymous", "aaaaa-aa", "rrkah"}

\* The identity that installs the canister, and so calls #[init].  The code
\* treats all identities alike, so one stands for any.
Initializer == "rrkah"

\* Every u128 a caller can pass as an amount.
Amounts == 0 .. U128_MAX

\* Every value the host's clock takes.
Times == 0 .. MaxTime

ICPT == "ICPT"

VARIABLES
    token,            \* TOKEN
    wallets,          \* WALLETS: Principal -> Wallet, a partial map
    transfer_events,  \* TRANSFER_EVENTS
    owner,            \* OWNER
    time,             \* the last value get_time() returned
    units             \* a call of to_token_units: its arguments and its outcome

vars == <<token, wallets, transfer_events, owner, time, units>>

\* ---------------------------------------------------------------- helpers

\* Option<u128>
Some(v) == [some |-> TRUE, v |-> v]
None == [some |-> FALSE, v |-> 0]

\* Mutant: u128::wrapping_add where the code calls checked_add.
wrapping_add(a, b) == Some((a + b) % (U128_MAX + 1))

\* u128::checked_add
checked_add(a, b) == IF a + b > U128_MAX THEN None ELSE Some(a + b)

\* Mutant: a subtraction that refuses to reach zero.
checked_sub_strict(a, b) == IF a <= b THEN None ELSE Some(a - b)

\* u128::checked_sub
checked_sub(a, b) == IF a < b THEN None ELSE Some(a - b)

\* HashMap::new()
EmptyMap == [s \in {} |-> 0]

\* Mutant: the wallet made on demand is owned by the default identity.
NewWalletAnonymous(p) == [owner |-> "anonymous", balances |-> EmptyMap]

\* Wallet { owner: p, balances: HashMap::new() }
NewWallet(p) == [owner |-> p, balances |-> EmptyMap]

\* Mutant: wallets.insert(p, Wallet { .. }), which replaces a wallet that exists.
insert_wallet(w, p) ==
    [q \in DOMAIN w \cup {p} |-> IF q = p THEN NewWallet(p) ELSE w[q]]

\* wallets.entry(p).or_insert(Wallet { owner: p, balances: HashMap::new() })
or_insert_wallet(w, p) ==
    IF p \in DOMAIN w THEN w ELSE w @@ (p :> NewWallet(p))

\* Mutant: w[p].balances.insert("ICPT", 0), which resets a balance that exists.
insert_balance(w, p) ==
    [w EXCEPT ![p].balances = [s \in DOMAIN @ \cup {ICPT} |-> IF s = ICPT THEN 0 ELSE @[s]]]

\* w[p].balances.entry("ICPT").or_insert(0)
or_insert_balance(w, p) ==
    IF ICPT \in DOMAIN w[p].balances
    THEN w
    ELSE [w EXCEPT ![p].balances = @ @@ (ICPT :> 0)]

\* Mutant: a wallet whose balance becomes zero is removed from the map.
set_balance_prune(w, p, v) ==
    IF v = 0
    THEN [q \in DOMAIN w \ {p} |-> w[q]]
    ELSE [w EXCEPT ![p].balances[ICPT] = v]

\* *balance = v, for the "ICPT" entry of w[p]
set_balance(w, p, v) == [w EXCEPT ![p].balances[ICPT] = v]

\* get_balance, on a given wallet map
balance_in(w, p) ==
    IF p \in DOMAIN w
    THEN IF ICPT \in DOMAIN w[p].balances THEN w[p].balances[ICPT] ELSE 0
    ELSE 0

\* #[query] get_balance
get_balance(p) == balance_in(wallets, p)

\* Mutant: no owner check at all.
is_owner_anyone(caller) == caller \in Principals

\* Mutant: the check is made against the identity that installed the canister.
is_owner_stale(caller) == caller = Initializer

\* is_owner, for the caller of the current call
is_owner(caller) == owner = caller

\* The sum of the "ICPT" balances of all wallets of a wallet map.
RECURSIVE SumOver(_, _)
SumOver(w, S) ==
    IF S = {} THEN 0
    ELSE LET p == CHOOSE x \in S : TRUE
         IN balance_in(w, p) + SumOver(w, S \ {p})

SumBalances(w) == SumOver(w, DOMAIN w)

\* The four cells as one value, and a handler's outcome: the cells after it
\* returned, with what it returned.
Cells == [token |-> token, wallets |-> wallets, events |-> transfer_events,
          owner |-> owner]

Outcome(c, result) ==
    [token |-> c.token, wallets |-> c.wallets, events |-> c.events,
     owner |-> c.owner, result |-> result]

\* --------------------------------------------------------------- handlers

\* An outcome that carries the value inside Ok(..) or Err(..).
OutcomeOf(c, result, value) ==
    [token |-> c.token, wallets |-> c.wallets, events |-> c.events,
     owner |-> c.owner, result |-> result, value |-> value]

\* Mutant: get_balance that looks the wallet up with entry().or_insert, and so
\* makes a wallet for an identity that has none.
get_balance_on_demand(p) ==
    LET w == or_insert_balance(or_insert_wallet(wallets, p), p)
    IN  OutcomeOf([Cells EXCEPT !.wallets = w], "Ok", w[p].balances[ICPT])

\* #[query] get_balance as a call: the u128 it returns and the cells it leaves
get_balance_query(p) ==
    OutcomeOf(Cells, "Ok",
              IF p \in DOMAIN wallets
              THEN IF ICPT \in DOMAIN wallets[p].balances
                   THEN wallets[p].balances[ICPT]
                   ELSE 0
              ELSE 0)

\* Mutant: create_wallet that opens the wallet with one unit in it.
create_wallet_funded(caller) ==
    IF caller \in DOMAIN wallets
    THEN OutcomeOf(Cells, "Err", "Wallet already exists")
    ELSE OutcomeOf([Cells EXCEPT !.wallets =
                       @ @@ (caller :> [owner |-> caller, balances |-> (ICPT :> 1)])],
                   "Ok", caller)

\* Mutant: create_wallet without the contains_key guard: insert replaces the
\* wallet the caller has.
create_wallet_overwrite(caller) ==
    OutcomeOf([Cells EXCEPT !.wallets =
                  [q \in DOMAIN @ \cup {caller} |->
                      IF q = caller
                      THEN [owner |-> caller, balances |-> (ICPT :> 0)]
                      ELSE @[q]]],
              "Ok", caller)

\* #[update] create_wallet: Ok(caller) or Err("Wallet already exists")
create_wallet(caller) ==
    IF caller \in DOMAIN wallets
    THEN OutcomeOf(Cells, "Err", "Wallet already exists")
    ELSE OutcomeOf([Cells EXCEPT !.wallets =
                       @ @@ (caller :> [owner |-> caller, balances |-> (ICPT :> 0)])],
                   "Ok", caller)

\* Mutant: the event is stamped with the zero of the test clock.
TransferEventUnstamped(caller, to, amount, now) ==
    [from |-> caller, to |-> to, amount |-> amount, timestamp |-> 0]

\* TransferEvent { from: caller, to, amount, timestamp: get_time() }
TransferEvent(caller, to, amount, now) ==
    [from |-> caller, to |-> to, amount |-> amount, timestamp |-> now]

\* transfer, inside WALLETS.with: the sender's wallet, the balance check, the
\* debit, the credit and the ledger entry.
transfer_in_wallets(caller, to, amount, now) ==
    IF caller \notin DOMAIN wallets
    THEN Outcome(Cells, "SenderWalletNotFound")
    ELSE IF wallets[caller].owner # caller
    THEN Outcome(Cells, "Unauthorized")
    ELSE
    LET w1 == or_insert_balance(wallets, caller)
        from_balance == w1[caller].balances[ICPT]
    IN  IF from_balance < amount
        THEN Outcome([Cells EXCEPT !.wallets = w1], "InsufficientBalance")
        ELSE
        LET sub == checked_sub(from_balance, amount)
        IN  IF ~sub.some
            THEN Outcome([Cells EXCEPT !.wallets = w1], "OverflowError")
            ELSE
            LET w2 == set_balance(w1, caller, sub.v)
                w3 == or_insert_wallet(w2, to)
                w4 == or_insert_balance(w3, to)
                add == checked_add(w4[to].balances[ICPT], amount)
            IN  IF ~add.some
                THEN Outcome([Cells EXCEPT !.wallets = w4], "OverflowError")
                ELSE Outcome([Cells EXCEPT
                                 !.wallets = set_balance(w4, to, add.v),
                                 !.events = Append(@, TransferEvent(caller, to, amount, now))],
                             "Ok")

\* Mutant: transfer without the check of a zero amount.
transfer_any_amount(caller, to, amount, now) ==
    transfer_in_wallets(caller, to, amount, now)

\* Mutant: transfer that makes the recipient's wallet before it checks the
\* sender.
transfer_recipient_first(caller, to, amount, now) ==
    IF amount = 0
    THEN Outcome(Cells, "InvalidAmount")
    ELSE LET r == transfer_in_wallets(caller, to, amount, now)
         IN  IF r.result = "Ok"
             THEN r
             ELSE [r EXCEPT !.wallets = or_insert_balance(or_insert_wallet(@, to), to)]

\* #[update] transfer, called at host time now
transfer(caller, to, amount, now) ==
    IF amount = 0
    THEN Outcome(Cells, "InvalidAmount")
    ELSE transfer_in_wallets(caller, to, amount, now)

\* Mutant: mint, inside TOKEN.with, never writing total_supply back.
mint_in_token_unwritten(to, amount) ==
    LET add == checked_add(token.total_supply, amount)
    IN  IF ~add.some
        THEN Outcome(Cells, "OverflowError")
        ELSE
        LET w2 == or_insert_balance(or_insert_wallet(wallets, to), to)
            badd == checked_add(w2[to].balances[ICPT], amount)
        IN  IF ~badd.some
            THEN Outcome([Cells EXCEPT !.wallets = w2], "OverflowError")
            ELSE Outcome([Cells EXCEPT !.wallets = set_balance(w2, to, badd.v)], "Ok")

\* Mutant: mint, inside TOKEN.with, adding to total_supply with wrapping_add.
mint_in_token_wrapping(to, amount) ==
    LET t1 == [token EXCEPT !.total_supply = (@ + amount) % (U128_MAX + 1)]
        w1 == or_insert_wallet(wallets, to)
        w2 == or_insert_balance(w1, to)
        badd == checked_add(w2[to].balances[ICPT], amount)
    IN  IF ~badd.some
        THEN Outcome([Cells EXCEPT !.token = t1, !.wallets = w2], "OverflowError")
        ELSE Outcome([Cells EXCEPT !.token = t1,
                                   !.wallets = set_balance(w2, to, badd.v)],
                     "Ok")

\* mint, inside TOKEN.with: total_supply is written, then the recipient's
\* wallet is found or made and credited.
mint_in_token(to, amount) ==
    LET add == checked_add(token.total_supply, amount)
    IN  IF ~add.some
        THEN Outcome(Cells, "OverflowError")
        ELSE
        LET t1 == [token EXCEPT !.total_supply = add.v]
            w1 == or_insert_wallet(wallets, to)
            w2 == or_insert_balance(w1, to)
            badd == checked_add(w2[to].balances[ICPT], amount)
        IN  IF ~badd.some
            THEN Outcome([Cells EXCEPT !.token = t1, !.wallets = w2], "OverflowError")
            ELSE Outcome([Cells EXCEPT !.token = t1,
                                       !.wallets = set_balance(w2, to, badd.v)],
                         "Ok")

\* Mutant: mint that refuses a zero amount, as transfer does.
mint_nonzero(caller, to, amount) ==
    IF amount = 0
    THEN Outcome(Cells, "InvalidAmount")
    ELSE IF ~is_owner(caller)
    THEN Outcome(Cells, "Unauthorized")
    ELSE mint_in_token(to, amount)

\* #[update] mint
mint(caller, to, amount) ==
    IF ~is_owner(caller)
    THEN Outcome(Cells, "Unauthorized")
    ELSE mint_in_token(to, amount)

\* Mutant: burn that looks the caller's wallet up with entry().or_insert, as
\* transfer and mint do for a recipient, so that a caller without a wallet gets
\* one and is told its balance is too small.
burn_wallet_on_demand(caller, amount) ==
    LET w0 == or_insert_balance(or_insert_wallet(wallets, caller), caller)
        balance == w0[caller].balances[ICPT]
    IN  IF balance < amount
        THEN Outcome([Cells EXCEPT !.wallets = w0], "InsufficientBalance")
        ELSE
        LET new_total_supply == checked_sub(token.total_supply, amount)
        IN  IF ~new_total_supply.some
            THEN Outcome([Cells EXCEPT !.wallets = w0], "OverflowError")
            ELSE Outcome([Cells EXCEPT
                             !.wallets = set_balance(w0, caller, balance - amount),
                             !.token = [@ EXCEPT !.total_supply = new_total_supply.v]],
                         "Ok")

\* Mutant: burn, inside TOKEN.with, never writing total_supply back.
burn_in_token_unwritten(amount) ==
    LET new_total_supply == checked_sub(token.total_supply, amount)
    IN  IF ~new_total_supply.some
        THEN [some |-> FALSE, token |-> token]
        ELSE [some |-> TRUE, token |-> token]

\* burn, inside TOKEN.with: the token it leaves, or the failure of checked_sub.
\* (The comparison of total_supply with the value just assigned to it cannot
\* differ, so the Err behind it is never returned.)
burn_in_token(amount) ==
    LET new_total_supply == checked_sub(token.total_supply, amount)
    IN  IF ~new_total_supply.some
        THEN [some |-> FALSE, token |-> token]
        ELSE [some |-> TRUE,
              token |-> [token EXCEPT !.total_supply = new_total_supply.v]]

\* #[update] burn
burn(caller, amount) ==
    IF caller \notin DOMAIN wallets
    THEN Outcome(Cells, "SenderWalletNotFound")
    ELSE IF ICPT \notin DOMAIN wallets[caller].balances
    THEN Outcome(Cells, "InsufficientBalance")
    ELSE
    LET balance == wallets[caller].balances[ICPT]
    IN  IF balance < amount
        THEN Outcome(Cells, "InsufficientBalance")
        ELSE
        LET sub == checked_sub(balance, amount)
        IN  IF ~sub.some
            THEN Outcome(Cells, "OverflowError")
            ELSE
            LET w1 == set_balance(wallets, caller, sub.v)
                t == burn_in_token(amount)
            IN  IF ~t.some
                THEN Outcome([Cells EXCEPT !.wallets = w1], "OverflowError")
                ELSE Outcome([Cells EXCEPT !.wallets = w1, !.token = t.token], "Ok")

\* Mutant: change_owner that also puts TOKEN back to its thread_local value.
change_owner_reset(caller, new_owner) ==
    IF ~is_owner(caller)
    THEN Outcome(Cells, "Unauthorized")
    ELSE Outcome([Cells EXCEPT !.owner = new_owner,
                               !.token = [@ EXCEPT !.total_supply = INITIAL_SUPPLY]],
                 "Ok")

\* Mutant: change_owner without the owner check.
change_owner_unchecked(caller, new_owner) ==
    Outcome([Cells EXCEPT !.owner = new_owner], "Ok")

\* #[update] change_owner
change_owner(caller, new_owner) ==
    IF ~is_owner(caller)
    THEN Outcome(Cells, "Unauthorized")
    ELSE Outcome([Cells EXCEPT !.owner = new_owner], "Ok")

\* #[query] get_token_info: a clone of TOKEN
get_token_info == token

\* Mutant: the events copied newest first.
to_vec_rev(events) ==
    [i \in 1 .. Len(events) |-> events[Len(events) + 1 - i]]

\* <[TransferEvent]>::to_vec: a copy, element by element, in the order of the
\* vector
to_vec(events) == [i \in 1 .. Len(events) |-> events[i]]

\* #[query] get_transfer_history
get_transfer_history == to_vec(transfer_events)

\* ---------------------------------------------------------- to_token_units

\* to_token_units is called by no handler.  Its arithmetic is on powers of
\* ten, so it is modelled at a width of its own, wide enough for some powers
\* of ten to fit and for others not to: UNITS_MAX stands for u128::MAX here.
UNITS_MAX == 255

\* decimals: u8, cut to 0 .. MaxDecimals
MaxDecimals == 9

UnitAmounts == 0 .. UNITS_MAX
Decimals == 0 .. MaxDecimals

\* What a call can come to: Ok(value), Err(TransferError::OverflowError), or
\* a panic, which traps the call.
UnitsOk(v) == [result |-> "Ok", value |-> v]
UnitsOverflowError == [result |-> "OverflowError", value |-> 0]
UnitsPanic == [result |-> "panic", value |-> 0]

\* The integer 10^exp, cut off at UNITS_MAX + 1 once it no longer fits.
RECURSIVE Pow10(_)
Pow10(exp) ==
    IF exp = 0 THEN 1
    ELSE LET below == Pow10(exp - 1)
         IN  IF 10 * below > UNITS_MAX THEN UNITS_MAX + 1 ELSE 10 * below

\* 10^exp modulo 2^w, which is what wrapping multiplications leave.
RECURSIVE Pow10Wrapped(_)
Pow10Wrapped(exp) ==
    IF exp = 0 THEN 1 ELSE (10 * Pow10Wrapped(exp - 1)) % (UNITS_MAX + 1)

\* 10u128.pow(exp): pow multiplies with `*`, which panics on overflow in a
\* build with overflow checks (debug, tests) and wraps in a build without
\* them (release).
pow10(exp, overflow_checks) ==
    IF Pow10(exp) <= UNITS_MAX
    THEN UnitsOk(Pow10(exp))
    ELSE IF overflow_checks THEN UnitsPanic ELSE UnitsOk(Pow10Wrapped(exp))

\* u128::checked_mul(..).ok_or(TransferError::OverflowError)
checked_mul(a, b) ==
    IF a * b > UNITS_MAX THEN UnitsOverflowError ELSE UnitsOk(a * b)

\* to_token_units in one build
to_token_units_built(amount, decimals, overflow_checks) ==
    LET p == pow10(decimals, overflow_checks)
    IN  IF p.result = "panic" THEN UnitsPanic ELSE checked_mul(amount, p.value)

\* to_token_units: the outcomes the builds of the crate can produce
to_token_units(amount, decimals) ==
    {to_token_units_built(amount, decimals, overflow_checks) :
        overflow_checks \in BOOLEAN}

\* ------------------------------------------------------------ the machine

\* Mutant: #[init] that leaves OWNER at its thread_local value.
init_anonymous(caller) == "anonymous"

\* #[init]: the owner it leaves
init(caller) == caller

\* No call of to_token_units is under way.
NoUnits == [amount |-> 0, decimals |-> 0, outcome |-> [result |-> "none", value |-> 0]]

\* The thread_local initial values, then #[init] called by the installer.
Init ==
    /\ token = [name |-> "ICP Token", symbol |-> ICPT, decimals |-> 8,
                total_supply |-> INITIAL_SUPPLY]
    /\ wallets = [p \in {} |-> NewWallet(p)]
    /\ transfer_events = <<>>
    /\ owner = init(Initializer)
    /\ time = 0
    /\ units = NoUnits

\* The cells take the values a handler left, whatever it returned.
Commit(r) ==
    /\ token' = r.token
    /\ wallets' = r.wallets
    /\ transfer_events' = r.events
    /\ owner' = r.owner
    /\ UNCHANGED units

CreateWallet ==
    \E caller \in Principals :
        /\ Commit(create_wallet(caller))
        /\ UNCHANGED time

\* The host's clock never goes back: were the call to read it, it would read
\* a time now >= the last one read.  transfer reads it when it pushes the event
\* and on no other path.
Transfer ==
    /\ Len(transfer_events) < MaxEvents
    /\ \E caller \in Principals, to \in Principals, amount \in Amounts,
          now \in time .. MaxTime :
        LET r == transfer(caller, to, amount, now)
        IN  /\ Commit(r)
            /\ time' = IF r.result = "Ok" THEN now ELSE time

Mint ==
    \E caller \in Principals, to \in Principals, amount \in Amounts :
        /\ Commit(mint(caller, to, amount))
        /\ UNCHANGED time

Burn ==
    \E caller \in Principals, amount \in Amounts :
        /\ Commit(burn(caller, amount))
        /\ UNCHANGED time

ChangeOwner ==
    \E caller \in Principals, new_owner \in Principals :
        /\ Commit(change_owner(caller, new_owner))
        /\ UNCHANGED time

Next ==
    \/ CreateWallet
    \/ Transfer
    \/ Mint
    \/ Burn
    \/ ChangeOwner

Spec == Init /\ [][Next]_vars

\* to_token_units on its own: a call with any arguments, then its return.
UnitsInit ==
    /\ token = [name |-> "ICP Token", symbol |-> ICPT, decimals |-> 8,
                total_supply |-> INITIAL_SUPPLY]
    /\ wallets = [p \in {} |-> NewWallet(p)]
    /\ transfer_events = <<>>
    /\ owner = init(Initializer)
    /\ time = 0
    /\ \E amount \in UnitAmounts, decimals \in Decimals :
          units = [amount |-> amount, decimals |-> decimals,
                   outcome |-> [result |-> "called", value |-> 0]]

ToTokenUnits ==
    /\ units.outcome.result = "called"
    /\ \E o \in to_token_units(units.amount, units.decimals) :
          units' = [units EXCEPT !.outcome = o]
    /\ UNCHANGED <<token, wallets, transfer_events, owner, time>>

UnitsNext == ToTokenUnits

UnitsSpec == UnitsInit /\ [][UnitsNext]_vars

\* ----------------------------------------------------------------- claims

\* The cells are the same in outcome r as they are now.
Untouched(r) ==
    /\ r.token = token
    /\ r.wallets = wallets
    /\ r.events = transfer_events
    /\ r.owner = owner

\* C1, as the specification states it: in every reachable state total_supply
\* equals the sum of the "ICPT" balances of all accounts.
C1_Conservation == token.total_supply = SumBalances(wallets)

\* C1, amended: in every reachable state total_supply equals the initial
\* supply plus the sum of the "ICPT" balances of all accounts.
C1_ConservationAboveInitial ==
    token.total_supply = INITIAL_SUPPLY + SumBalances(wallets)

\* Two accounts hold tokens: a mint and a transfer, or two mints, have acted.
C1_Witness ==
    \E p \in DOMAIN wallets, q \in DOMAIN wallets :
        p # q /\ get_balance(p) > 0 /\ get_balance(q) > 0

\* C2: a transfer that returns an error leaves the balance of the sender and
\* the balance of the recipient as they were before the call.
C2_TransferAtomicity ==
    \A caller \in Principals, to \in Principals, amount \in Amounts, now \in Times :
        LET r == transfer(caller, to, amount, now)
        IN  r.result # "Ok" =>
                /\ balance_in(r.wallets, caller) = get_balance(caller)
                /\ balance_in(r.wallets, to) = get_balance(to)

\* A sender that holds tokens asks for more than it holds, and the recipient
\* holds tokens too; and another caller has no wallet at all.
C2_Witness ==
    /\ \E caller \in Principals, to \in Principals, amount \in Amounts :
          /\ caller # to
          /\ get_balance(caller) > 0
          /\ get_balance(to) > 0
          /\ transfer(caller, to, amount, time).result = "InsufficientBalance"
    /\ \E caller \in Principals, to \in Principals, amount \in Amounts :
          transfer(caller, to, amount, time).result = "SenderWalletNotFound"

\* C3, as the specification states it: a mint succeeds if and only if the
\* caller is the current owner, for every recipient and every amount.
C3_MintIffOwner ==
    \A caller \in Principals, to \in Principals, amount \in Amounts :
        mint(caller, to, amount).result = "Ok" <=> caller = owner

\* C3, amended: a mint succeeds if and only if the caller is the current owner
\* and total_supply + amount fits the unsigned type; a caller that is not the
\* owner gets Unauthorized, the owner whose amount does not fit OverflowError.
C3_MintIffOwnerAndFits ==
    \A caller \in Principals, to \in Principals, amount \in Amounts :
        LET r == mint(caller, to, amount)
        IN  /\ r.result = "Ok" <=>
                (caller = owner /\ token.total_supply + amount <= U128_MAX)
            /\ caller # owner => r.result = "Unauthorized"
            /\ (caller = owner /\ token.total_supply + amount > U128_MAX) =>
                   r.result = "OverflowError"

\* Tokens have been minted, and in this state the owner's next mint succeeds
\* for one amount and overflows for another.
C3_Witness ==
    /\ token.total_supply > INITIAL_SUPPLY
    /\ \E to \in Principals, amount \in Amounts :
          amount > 0 /\ mint(owner, to, amount).result = "Ok"
    /\ \E to \in Principals, amount \in Amounts :
          mint(owner, to, amount).result = "OverflowError"

\* C4: change_owner succeeds if and only if the caller is the current owner;
\* on success the owner is new_owner (also when that is the owner already) and
\* nothing else changes; on failure it returns Unauthorized and nothing changes.
C4_ChangeOwner ==
    \A caller \in Principals, new_owner \in Principals :
        LET r == change_owner(caller, new_owner)
        IN  /\ r.result = "Ok" <=> caller = owner
            /\ r.result = "Ok" =>
                   /\ r.owner = new_owner
                   /\ r.token = token
                   /\ r.wallets = wallets
                   /\ r.events = transfer_events
            /\ r.result # "Ok" => (r.result = "Unauthorized" /\ Untouched(r))

\* The owner is no longer the installer (a change_owner has succeeded), and
\* the cells hold wallets, tokens and a ledger entry that it must leave alone.
C4_Witness ==
    /\ owner # Initializer
    /\ \E p \in DOMAIN wallets : get_balance(p) > 0
    /\ Len(transfer_events) > 0

\* C5: whoever is not the current owner (the previous owner, once it has handed
\* over, until it is named owner again) gets Unauthorized from every mint and
\* every change_owner, which change nothing; the current owner's mint succeeds
\* whenever the amount fits; exactly one identity passes the owner check.
C5_HandOff ==
    /\ Cardinality({p \in Principals : is_owner(p)}) = 1
    /\ \A old \in Principals \ {owner}, to \in Principals :
          /\ \A amount \in Amounts :
                LET r == mint(old, to, amount)
                IN  r.result = "Unauthorized" /\ Untouched(r)
          /\ LET r == change_owner(old, to)
             IN  r.result = "Unauthorized" /\ Untouched(r)
    /\ \A to \in Principals, amount \in Amounts :
          token.total_supply + amount <= U128_MAX =>
              mint(owner, to, amount).result = "Ok"

\* The installer has handed over to another identity, and that identity has
\* minted since: it holds none of the initial supply, which the installer's
\* mints could have filled to the top.
C5_Witness ==
    /\ owner # Initializer
    /\ mint(Initializer, Initializer, 0).result = "Unauthorized"
    /\ mint(owner, owner, 0).result = "Ok"
    /\ token.total_supply > INITIAL_SUPPLY

\* C6: the outcome of a transfer is decided by the checks in this order: a zero
\* amount gives InvalidAmount (also for a caller without a wallet); otherwise a
\* caller without a wallet gives SenderWalletNotFound; otherwise a balance below
\* the amount gives InsufficientBalance; otherwise the transfer succeeds.
C6_TransferOutcome ==
    \A caller \in Principals, to \in Principals, amount \in Amounts, now \in Times :
        transfer(caller, to, amount, now).result =
            IF amount = 0 THEN "InvalidAmount"
            ELSE IF caller \notin DOMAIN wallets THEN "SenderWalletNotFound"
            ELSE IF get_balance(caller) < amount THEN "InsufficientBalance"
            ELSE "Ok"

\* One state in which all four outcomes are returned: some caller has no
\* wallet, another holds tokens and can send some but not any amount.
C6_Witness ==
    /\ \E caller \in Principals \ DOMAIN wallets, to \in Principals :
          /\ transfer(caller, to, 0, time).result = "InvalidAmount"
          /\ transfer(caller, to, 1, time).result = "SenderWalletNotFound"
    /\ \E caller \in DOMAIN wallets, to \in Principals, a \in Amounts, b \in Amounts :
          /\ transfer(caller, to, a, time).result = "InsufficientBalance"
          /\ transfer(caller, to, b, time).result = "Ok"

\* C7: a successful transfer to another identity takes exactly amount from the
\* caller's balance and adds exactly amount to the recipient's (whose wallet
\* exists afterwards, starting from zero if it did not exist), leaves every
\* other wallet, the token and the owner as they were, and appends exactly one
\* event with from = caller, to, amount and timestamp = the time of the call.
C7_TransferEffect ==
    \A caller \in Principals, to \in Principals, amount \in Amounts, now \in Times :
        LET r == transfer(caller, to, amount, now)
        IN  (to # caller /\ r.result = "Ok") =>
                /\ balance_in(r.wallets, caller) = get_balance(caller) - amount
                /\ balance_in(r.wallets, to) = get_balance(to) + amount
                /\ to \in DOMAIN r.wallets
                /\ DOMAIN r.wallets = DOMAIN wallets \cup {to}
                /\ \A p \in DOMAIN wallets \ {caller, to} : r.wallets[p] = wallets[p]
                /\ r.token = token
                /\ r.owner = owner
                /\ r.events = Append(transfer_events,
                                     [from |-> caller, to |-> to, amount |-> amount,
                                      timestamp |-> now])

\* The ledger holds a transfer between two identities made after the clock
\* moved; the sender kept a part of its balance and a third wallet exists.
C7_Witness ==
    \E i \in 1 .. Len(transfer_events) :
        LET e == transfer_events[i]
        IN  /\ e.from # e.to
            /\ e.timestamp > 0
            /\ get_balance(e.from) > 0
            /\ get_balance(e.to) = e.amount
            /\ DOMAIN wallets \ {e.from, e.to} # {}

\* C8: a successful mint adds exactly amount to total_supply and to the
\* recipient's balance (whose wallet exists afterwards, starting from zero if
\* it did not exist), and leaves every other wallet, the rest of the token, the
\* owner and the ledger as they were.
C8_MintEffect ==
    \A caller \in Principals, to \in Principals, amount \in Amounts :
        LET r == mint(caller, to, amount)
        IN  r.result = "Ok" =>
                /\ r.token = [token EXCEPT !.total_supply = @ + amount]
                /\ balance_in(r.wallets, to) = get_balance(to) + amount
                /\ DOMAIN r.wallets = DOMAIN wallets \cup {to}
                /\ \A p \in DOMAIN wallets \ {to} : r.wallets[p] = wallets[p]
                /\ r.owner = owner
                /\ r.events = transfer_events

\* Tokens are held, the ledger is not empty, and the owner can mint a positive
\* amount both to a wallet that holds tokens and to an identity without wallet.
C8_Witness ==
    /\ Len(transfer_events) > 0
    /\ \E to \in DOMAIN wallets :
          get_balance(to) > 0 /\ mint(owner, to, 1).result = "Ok"
    /\ \E to \in Principals \ DOMAIN wallets : mint(owner, to, 1).result = "Ok"

\* C9: when the owner mints an amount with total_supply + amount above the
\* largest value of the type, the call returns OverflowError and changes
\* nothing: not total_supply, not a balance, not the set of wallets.
C9_MintSupplyOverflow ==
    \A to \in Principals, amount \in Amounts :
        token.total_supply + amount > U128_MAX =>
            LET r == mint(owner, to, amount)
            IN  /\ r.result = "OverflowError"
                /\ r.token = token
                /\ r.wallets = wallets
                /\ DOMAIN r.wallets = DOMAIN wallets
                /\ Untouched(r)

\* Tokens have been minted, and an amount that still looks small overflows
\* total_supply for a recipient that has no wallet yet.
C9_Witness ==
    /\ token.total_supply > INITIAL_SUPPLY
    /\ \E to \in Principals \ DOMAIN wallets, amount \in Amounts :
          /\ amount < U128_MAX
          /\ mint(owner, to, amount).result = "OverflowError"

\* C10: after every mint either total_supply and the recipient's balance have
\* both grown by amount (the call succeeded) or neither total_supply nor any
\* balance has changed (the call failed).
C10_MintAllOrNothing ==
    \A caller \in Principals, to \in Principals, amount \in Amounts :
        LET r == mint(caller, to, amount)
        IN  \/ /\ r.result = "Ok"
               /\ r.token.total_supply = token.total_supply + amount
               /\ balance_in(r.wallets, to) = get_balance(to) + amount
            \/ /\ r.result # "Ok"
               /\ r.token.total_supply = token.total_supply
               /\ \A p \in Principals : balance_in(r.wallets, p) = get_balance(p)

\* One wallet holds everything that was ever minted and total_supply is at the
\* top of the type: a further mint to that wallet fails on total_supply, the
\* step before the balance would overflow.
C10_Witness ==
    /\ token.total_supply = U128_MAX
    /\ \E p \in DOMAIN wallets :
          /\ get_balance(p) = U128_MAX - INITIAL_SUPPLY
          /\ mint(owner, p, 1).result = "OverflowError"
          /\ mint(owner, p, 0).result = "Ok"

\* C11: burn fails with SenderWalletNotFound when the caller has no wallet and
\* with InsufficientBalance when the caller's balance is below the amount; in
\* both cases every balance and total_supply stay as they were.
C11_BurnFailures ==
    \A caller \in Principals, amount \in Amounts :
        LET r == burn(caller, amount)
            same == /\ r.token.total_supply = token.total_supply
                    /\ \A p \in Principals : balance_in(r.wallets, p) = get_balance(p)
        IN  /\ caller \notin DOMAIN wallets =>
                   (r.result = "SenderWalletNotFound" /\ same)
            /\ (caller \in DOMAIN wallets /\ get_balance(caller) < amount) =>
                   (r.result = "InsufficientBalance" /\ same)

\* One caller has no wallet, another holds tokens and asks to burn more than
\* it holds, while tokens have been minted.
C11_Witness ==
    /\ token.total_supply > INITIAL_SUPPLY
    /\ \E caller \in Principals \ DOMAIN wallets :
          burn(caller, 1).result = "SenderWalletNotFound"
    /\ \E caller \in DOMAIN wallets, amount \in Amounts :
          /\ get_balance(caller) > 0
          /\ burn(caller, amount).result = "InsufficientBalance"

\* C12: after every burn either the caller's balance and total_supply have both
\* gone down by exactly amount (the call succeeded) or neither has changed (the
\* call failed); no other balance changes and the ledger gets no event.
C12_BurnAllOrNothing ==
    \A caller \in Principals, amount \in Amounts :
        LET r == burn(caller, amount)
        IN  /\ \/ /\ r.result = "Ok"
                  /\ balance_in(r.wallets, caller) = get_balance(caller) - amount
                  /\ r.token.total_supply = token.total_supply - amount
               \/ /\ r.result # "Ok"
                  /\ balance_in(r.wallets, caller) = get_balance(caller)
                  /\ r.token.total_supply = token.total_supply
            /\ \A p \in Principals \ {caller} :
                  balance_in(r.wallets, p) = get_balance(p)
            /\ r.events = transfer_events

\* The ledger is not empty, two wallets hold tokens, and one of them can burn
\* a positive amount and cannot burn another.
C12_Witness ==
    /\ Len(transfer_events) > 0
    /\ \E caller \in DOMAIN wallets, other \in DOMAIN wallets, a \in Amounts :
          /\ other # caller
          /\ get_balance(other) > 0
          /\ burn(caller, 1).result = "Ok"
          /\ burn(caller, a).result = "InsufficientBalance"

\* C13: create_wallet by a caller without a wallet makes a wallet keyed by the
\* caller, owned by it, with balance zero, and returns the caller; by a caller
\* that has a wallet it fails with "Wallet already exists" and leaves all cells
\* as they were.  A caller that has just succeeded has a wallet, so its next
\* call fails.
C13_CreationGuard ==
    \A caller \in Principals :
        LET r == create_wallet(caller)
        IN  /\ caller \notin DOMAIN wallets =>
                /\ r.result = "Ok"
                /\ r.value = caller
                /\ DOMAIN r.wallets = DOMAIN wallets \cup {caller}
                /\ r.wallets[caller].owner = caller
                /\ balance_in(r.wallets, caller) = 0
                /\ \A p \in DOMAIN wallets : r.wallets[p] = wallets[p]
                /\ r.token = token /\ r.events = transfer_events /\ r.owner = owner
            /\ caller \in DOMAIN wallets =>
                /\ r.result = "Err"
                /\ r.value = "Wallet already exists"
                /\ Untouched(r)
            /\ r.result = "Ok" => caller \in DOMAIN r.wallets

\* A wallet that holds tokens exists, so that a second create_wallet by its
\* holder has a balance to preserve, and another identity has no wallet yet.
C13_Witness ==
    /\ \E caller \in DOMAIN wallets :
          get_balance(caller) > 0 /\ create_wallet(caller).result = "Err"
    /\ \E caller \in Principals \ DOMAIN wallets :
          create_wallet(caller).result = "Ok"

\* What C14 asks of the calls that can be made in one state, for every caller x.
C14_NoDebitByOthers ==
    \A x \in Principals :
        LET down(r, y) == balance_in(r.wallets, y) < get_balance(y)
            never(r) == \A y \in Principals : ~down(r, y)
            by_holder(r) ==
                \A y \in Principals : down(r, y) => (x = y /\ r.result = "Ok")
        IN  /\ never(create_wallet(x))
            /\ \A to \in Principals, amount \in Amounts :
                  /\ never(mint(x, to, amount))
                  /\ \A now \in Times : by_holder(transfer(x, to, amount, now))
            /\ \A amount \in Amounts : by_holder(burn(x, amount))
            /\ \A new_owner \in Principals : never(change_owner(x, new_owner))

\* C14: the balance of an identity y goes down only by a successful transfer or
\* burn that y itself calls; every call by another identity x, and every other
\* or failed call by y, leaves y's balance as it was or raises it.
C14_OnlyHolderDebits == []C14_NoDebitByOthers

\* y holds tokens, x has a wallet with less, and x asks to transfer an amount
\* that y could pay and x cannot.
C14_Witness ==
    \E y \in DOMAIN wallets, x \in DOMAIN wallets, amount \in Amounts :
        /\ x # y
        /\ get_balance(x) < amount
        /\ amount <= get_balance(y)
        /\ transfer(x, y, amount, time).result = "InsufficientBalance"
        /\ transfer(y, x, amount, time).result = "Ok"

\* What C15 asks of the calls that can be made in one state.
C15_LedgerGrowth ==
    /\ get_transfer_history = transfer_events
    /\ \A caller \in Principals :
          /\ create_wallet(caller).events = transfer_events
          /\ \A amount \in Amounts : burn(caller, amount).events = transfer_events
          /\ \A p \in Principals :
                /\ change_owner(caller, p).events = transfer_events
                /\ \A amount \in Amounts :
                      /\ mint(caller, p, amount).events = transfer_events
                      /\ \A now \in Times :
                            LET r == transfer(caller, p, amount, now)
                                n == Len(transfer_events)
                            IN  IF r.result = "Ok"
                                THEN /\ Len(r.events) = n + 1
                                     /\ SubSeq(r.events, 1, n) = transfer_events
                                     /\ r.events[n + 1].from = caller
                                     /\ r.events[n + 1].to = p
                                     /\ r.events[n + 1].amount = amount
                                     /\ to_vec(r.events) =
                                            Append(get_transfer_history, r.events[n + 1])
                                ELSE r.events = transfer_events

\* C15: the ledger only grows at its end: a successful transfer leaves the old
\* ledger followed by exactly one event, the one of that transfer; a failed
\* transfer, create_wallet, mint, burn and change_owner leave the ledger as it
\* was; get_transfer_history returns the ledger in the order of insertion.
C15_LedgerAppendOnly ==
    /\ []C15_LedgerGrowth
    /\ [][/\ Len(transfer_events') \in {Len(transfer_events), Len(transfer_events) + 1}
          /\ SubSeq(transfer_events', 1, Len(transfer_events)) = transfer_events]_vars

\* The ledger holds an event and a transfer that would add a different one can
\* succeed.
C15_Witness ==
    /\ Len(transfer_events) > 0
    /\ \E caller \in Principals, to \in Principals, amount \in Amounts :
          LET r == transfer(caller, to, amount, time)
          IN  /\ r.result = "Ok"
              /\ r.events[Len(r.events)] # transfer_events[1]

\* What C16 asks of one state and of the calls that can be made in it.
C16_TokenFrame ==
    LET meta(t) == /\ t.name = "ICP Token"
                   /\ t.symbol = ICPT
                   /\ t.decimals = 8
    IN  /\ meta(get_token_info)
        /\ \A caller \in Principals :
              /\ create_wallet(caller).token = token
              /\ \A amount \in Amounts :
                    LET r == burn(caller, amount)
                    IN  /\ meta(r.token)
                        /\ r.result # "Ok" => r.token = token
              /\ \A p \in Principals :
                    /\ change_owner(caller, p).token = token
                    /\ \A amount \in Amounts :
                          /\ \A now \in Times :
                                transfer(caller, p, amount, now).token = token
                          /\ LET r == mint(caller, p, amount)
                             IN  /\ meta(r.token)
                                 /\ r.result # "Ok" => r.token = token

\* C16: total_supply is changed only by a successful mint or burn: transfer,
\* create_wallet and change_owner leave the token as it was, a failed mint or
\* burn leaves total_supply as it was, and name, symbol and decimals have their
\* initial values in every reachable state and after every call.
C16_SupplyFrame == []C16_TokenFrame

\* Tokens have been minted, the owner has changed, and in this state a
\* transfer and a create_wallet can succeed.
C16_Witness ==
    /\ token.total_supply > INITIAL_SUPPLY
    /\ owner # Initializer
    /\ \E caller \in Principals, to \in Principals :
          /\ transfer(caller, to, 1, time).result = "Ok"
          /\ create_wallet(to).result = "Ok"

\* What C17 asks of every call: create_wallet, transfer, mint and burn leave
\* OWNER as it was, and change_owner changes it only when the caller is the
\* owner and the call succeeds, to the identity it was given.
C17_OwnerFrame ==
    \A caller \in Principals :
        /\ create_wallet(caller).owner = owner
        /\ \A amount \in Amounts : burn(caller, amount).owner = owner
        /\ \A p \in Principals :
              /\ \A amount \in Amounts :
                    /\ mint(caller, p, amount).owner = owner
                    /\ \A now \in Times :
                          transfer(caller, p, amount, now).owner = owner
              /\ LET r == change_owner(caller, p)
                 IN  IF r.result = "Ok"
                     THEN caller = owner /\ r.owner = p
                     ELSE r.owner = owner

\* C17: OWNER starts as the identity that called #[init], and afterwards only
\* a successful change_owner called by the current owner changes it.
C17_Owner == (owner = Initializer) /\ []C17_OwnerFrame

\* The owner is no longer the installer, and in this state a change_owner by
\* the owner can succeed and one by another identity fails.
C17_Witness ==
    /\ owner # Initializer
    /\ \E caller \in Principals, p \in Principals :
          /\ p # owner
          /\ change_owner(owner, p).result = "Ok"
          /\ change_owner(caller, p).result = "Unauthorized"

\* The states of the scenario of C18, with its amounts scaled to the model's
\* integer width: 1000, 600, 1001 and 400 become 2, 1, 3 and 1.
NoAccounts(c) ==
    /\ c.token.total_supply = INITIAL_SUPPLY
    /\ DOMAIN c.wallets = {}
    /\ c.events = << >>

AfterMint(c, a) ==
    /\ c.token.total_supply = INITIAL_SUPPLY + 2
    /\ DOMAIN c.wallets = {a}
    /\ balance_in(c.wallets, a) = 2
    /\ c.events = << >>

AfterTransfer(c, a, b) ==
    /\ c.token.total_supply = INITIAL_SUPPLY + 2
    /\ DOMAIN c.wallets = {a, b}
    /\ balance_in(c.wallets, a) = 1
    /\ balance_in(c.wallets, b) = 1
    /\ Len(c.events) = 1
    /\ c.events[1].from = a /\ c.events[1].to = b /\ c.events[1].amount = 1

AfterBurn(c, a, b) ==
    /\ c.token.total_supply = INITIAL_SUPPLY + 1
    /\ DOMAIN c.wallets = {a, b}
    /\ balance_in(c.wallets, a) = 0
    /\ balance_in(c.wallets, b) = 1
    /\ Len(c.events) = 1

\* C18: with the initial supply and no wallets, the owner's mint of 2 to a
\* leaves a = 2 and total_supply = initial + 2; then a's transfer of 1 to a new
\* b leaves a = 1, b = 1 and one ledger event; then a's burn of 3 fails with
\* InsufficientBalance and changes nothing; then a's burn of 1 leaves a = 0
\* and total_supply = initial + 1.
C18_Scenario ==
    \A a \in Principals : \A b \in Principals \ {a} :
        /\ NoAccounts(Cells) =>
              LET r == mint(owner, a, 2)
              IN  r.result = "Ok" /\ AfterMint(r, a)
        /\ AfterMint(Cells, a) =>
              \A now \in Times :
                  LET r == transfer(a, b, 1, now)
                  IN  r.result = "Ok" /\ AfterTransfer(r, a, b)
        /\ AfterTransfer(Cells, a, b) =>
              /\ LET r == burn(a, 3)
                 IN  r.result = "InsufficientBalance" /\ Untouched(r)
              /\ LET r == burn(a, 1)
                 IN  r.result = "Ok" /\ AfterBurn(r, a, b)

\* The last state of the scenario, played from the initial state by the
\* installer as owner.
C18_Witness ==
    /\ owner = Initializer
    /\ \E a \in Principals : \E b \in Principals \ {a} : AfterBurn(Cells, a, b)

\* What C19 asks of one state and of the calls that can be made in it.
C19_ExactArithmetic ==
    LET ranged(c) ==
            /\ c.token.total_supply \in 0 .. U128_MAX
            /\ \A p \in Principals : balance_in(c.wallets, p) \in 0 .. U128_MAX
    IN  /\ ranged(Cells)
        /\ \A caller \in Principals, amount \in Amounts :
              /\ LET r == burn(caller, amount)
                 IN  /\ ranged(r)
                     /\ r.result = "Ok" =>
                           /\ r.token.total_supply + amount = token.total_supply
                           /\ balance_in(r.wallets, caller) + amount = get_balance(caller)
              /\ \A to \in Principals :
                    /\ LET r == mint(caller, to, amount)
                       IN  /\ ranged(r)
                           /\ r.result = "Ok" =>
                                 /\ r.token.total_supply = token.total_supply + amount
                                 /\ balance_in(r.wallets, to) = get_balance(to) + amount
                    /\ \A now \in Times :
                          LET r == transfer(caller, to, amount, now)
                          IN  /\ ranged(r)
                              /\ (r.result = "Ok" /\ to # caller) =>
                                    /\ balance_in(r.wallets, caller) + amount =
                                           get_balance(caller)
                                    /\ balance_in(r.wallets, to) =
                                           get_balance(to) + amount

\* C19: every balance and total_supply is within 0 .. U128_MAX in every
\* reachable state and after every call, and after a successful call each
\* changed value is the exact integer sum or difference.
C19_NoWrapAround == []C19_ExactArithmetic

\* total_supply is within one unit of the largest value, some wallet holds
\* tokens, and the owner asks for a mint whose sum does not fit.
C19_Witness ==
    /\ token.total_supply + 1 >= U128_MAX
    /\ \E p \in DOMAIN wallets :
          /\ get_balance(p) > 0
          /\ token.total_supply + 2 > U128_MAX
          /\ mint(owner, p, 2).result = "OverflowError"

\* C20: a wallet that exists for an identity exists in every later state.
C20_NeverDeleted == [][DOMAIN wallets \subseteq DOMAIN wallets']_vars

\* Every identity has a wallet, tokens have been burnt back to the initial
\* supply, and the ledger holds a transfer.
C20_Witness ==
    /\ DOMAIN wallets = Principals
    /\ Len(transfer_events) > 0
    /\ \A p \in Principals : get_balance(p) = 0

\* C21: get_balance returns the "ICPT" balance of an identity that has a
\* wallet and 0 for one that has none, always returns, and leaves every cell
\* as it was; an identity without a wallet can still create one afterwards.
C21_GetBalance ==
    \A p \in Principals :
        LET r == get_balance_query(p)
        IN  /\ r.result = "Ok"
            /\ Untouched(r)
            /\ r.value = get_balance(p)
            /\ p \in DOMAIN wallets =>
                  /\ ICPT \in DOMAIN wallets[p].balances
                  /\ r.value = wallets[p].balances[ICPT]
            /\ p \notin DOMAIN wallets =>
                  /\ r.value = 0
                  /\ p \notin DOMAIN r.wallets
                  /\ create_wallet(p).result = "Ok"

\* One identity holds tokens and another has no wallet.
C21_Witness ==
    /\ \E p \in DOMAIN wallets : get_balance_query(p).value > 0
    /\ \E p \in Principals \ DOMAIN wallets : get_balance_query(p).value = 0

\* What C22 asks of one state and of the calls that can be made in it: every
\* wallet, before and after every call, is owned by the identity it is keyed
\* under, and transfer does not return Unauthorized.
C22_OwnerIsKey ==
    LET keyed(w) == \A p \in DOMAIN w : w[p].owner = p
    IN  /\ keyed(wallets)
        /\ \A caller \in Principals :
              /\ keyed(create_wallet(caller).wallets)
              /\ \A to \in Principals, amount \in Amounts :
                    /\ keyed(mint(caller, to, amount).wallets)
                    /\ \A now \in Times :
                          LET r == transfer(caller, to, amount, now)
                          IN  keyed(r.wallets) /\ r.result # "Unauthorized"

\* C22: in every reachable state each wallet's owner field is the identity it
\* is keyed under, whether create_wallet, transfer or mint made it, and no
\* transfer returns Unauthorized.
C22_SelfConsistency == []C22_OwnerIsKey

\* Every identity has a wallet, at least one of them made on demand by the
\* transfer the ledger records, and its holder can transfer in turn.
C22_Witness ==
    /\ DOMAIN wallets = Principals
    /\ Len(transfer_events) > 0
    /\ LET e == transfer_events[1]
       IN  /\ e.to # e.from
           /\ transfer(e.to, e.from, 1, time).result = "Ok"

\* C23: a transfer that returns an error leaves the set of wallets as it was,
\* so the recipient gets no wallet, and leaves the ledger as it was.
C23_FailedTransferFrame ==
    \A caller \in Principals, to \in Principals, amount \in Amounts, now \in Times :
        LET r == transfer(caller, to, amount, now)
        IN  r.result # "Ok" =>
                /\ DOMAIN r.wallets = DOMAIN wallets
                /\ r.events = transfer_events

\* A sender that holds tokens asks to transfer more than it holds to an
\* identity that has no wallet.
C23_Witness ==
    \E caller \in DOMAIN wallets, to \in Principals \ DOMAIN wallets, amount \in Amounts :
        /\ get_balance(caller) > 0
        /\ transfer(caller, to, amount, time).result = "InsufficientBalance"

\* What C24 asks of one state and of the calls that can be made in it: the
\* part of total_supply that no wallet holds is the initial supply, and every
\* call leaves that part as it was.
C24_UnheldSupply ==
    LET unheld(c) == c.token.total_supply - SumBalances(c.wallets)
    IN  /\ unheld(Cells) = INITIAL_SUPPLY
        /\ \A caller \in Principals :
              /\ unheld(create_wallet(caller)) = unheld(Cells)
              /\ \A amount \in Amounts :
                    /\ unheld(burn(caller, amount)) = unheld(Cells)
                    /\ \A to \in Principals :
                          /\ unheld(mint(caller, to, amount)) = unheld(Cells)
                          /\ \A now \in Times :
                                unheld(transfer(caller, to, amount, now)) = unheld(Cells)

\* C24: in every reachable state total_supply less the sum of all balances is
\* the initial supply, which no wallet holds; mint, burn and transfer keep that
\* difference.
C24_SupplyOffset == []C24_UnheldSupply

\* total_supply is at its largest, two wallets share what was minted, and the
\* ledger records a transfer.
C24_Witness ==
    /\ token.total_supply = U128_MAX
    /\ Len(transfer_events) > 0
    /\ \E p \in DOMAIN wallets, q \in DOMAIN wallets :
          p # q /\ get_balance(p) + get_balance(q) = U128_MAX - INITIAL_SUPPLY
                /\ get_balance(p) > 0 /\ get_balance(q) > 0

\* What C25 asks of the calls that can be made in one state: transfer and burn
\* do not return OverflowError, mint returns it only from the addition to
\* total_supply, and a call that returns an error has changed no balance and
\* not total_supply.
C25_OverflowOnlyAtSupply ==
    LET kept(r) ==
            r.result # "Ok" =>
                /\ r.token.total_supply = token.total_supply
                /\ \A p \in Principals : balance_in(r.wallets, p) = get_balance(p)
    IN  \A caller \in Principals :
            /\ kept(create_wallet(caller))
            /\ \A amount \in Amounts :
                  /\ LET r == burn(caller, amount)
                     IN  r.result # "OverflowError" /\ kept(r)
                  /\ \A to \in Principals :
                        /\ kept(change_owner(caller, to))
                        /\ LET r == mint(caller, to, amount)
                           IN  /\ kept(r)
                               /\ r.result = "OverflowError" =>
                                     /\ caller = owner
                                     /\ token.total_supply + amount > U128_MAX
                        /\ \A now \in Times :
                              LET r == transfer(caller, to, amount, now)
                              IN  r.result # "OverflowError" /\ kept(r)

\* C25: in every reachable state only mint's addition to total_supply can
\* return OverflowError; the debit and credit of transfer, the two
\* subtractions of burn and the credit of mint do not fail, so no call returns
\* an error after it changed a balance or total_supply.
C25_OverflowReachability == []C25_OverflowOnlyAtSupply

\* One wallet holds all that can be minted, another wallet exists, and the
\* owner's mint of one more unit overflows total_supply.
C25_Witness ==
    \E p \in DOMAIN wallets, q \in DOMAIN wallets :
        /\ p # q
        /\ get_balance(p) = U128_MAX - INITIAL_SUPPLY
        /\ mint(owner, q, 1).result = "OverflowError"
        /\ burn(p, get_balance(p)).result = "Ok"

\* No wallet of the given cells holds a token.
NothingHeld(c) == \A p \in Principals : balance_in(c.wallets, p) = 0

\* What C26 asks of the calls that can be made in a state where no wallet
\* holds a token: no transfer succeeds, no burn of a positive amount succeeds,
\* and only a successful mint of a positive amount leaves a wallet with tokens.
C26_NothingToSpend ==
    NothingHeld(Cells) =>
        \A caller \in Principals :
            /\ NothingHeld(create_wallet(caller))
            /\ \A amount \in Amounts :
                  /\ LET r == burn(caller, amount)
                     IN  NothingHeld(r) /\ (amount > 0 => r.result # "Ok")
                  /\ \A to \in Principals :
                        /\ NothingHeld(change_owner(caller, to))
                        /\ LET r == mint(caller, to, amount)
                           IN  ~NothingHeld(r) => (r.result = "Ok" /\ amount > 0)
                        /\ \A now \in Times :
                              LET r == transfer(caller, to, amount, now)
                              IN  NothingHeld(r) /\ r.result # "Ok"

\* C26: tokens enter circulation only through mint: no wallet holds a token
\* at the start, a step from a state where no wallet holds a token to one where
\* some wallet does is a successful mint of a positive amount by the owner, and
\* while no wallet holds a token no transfer and no burn of a positive amount
\* succeeds.
C26_OnlyMintIssues ==
    /\ NothingHeld(Cells)
    /\ []C26_NothingToSpend
    /\ [][(NothingHeld(Cells) /\ ~NothingHeld(Cells)') =>
              \E to \in Principals, amount \in Amounts \ {0} :
                  LET r == mint(owner, to, amount)
                  IN  /\ r.result = "Ok"
                      /\ wallets' = r.wallets
                      /\ token' = r.token]_vars

\* The ledger records a transfer and total_supply is below the initial supply
\* plus the amount transferred: a mint, then the transfer, then a burn of a
\* positive amount have succeeded.
C26_Witness ==
    /\ Len(transfer_events) > 0
    /\ token.total_supply < INITIAL_SUPPLY + transfer_events[1].amount

\* C27: a transfer to the caller itself of an amount above zero and within the
\* caller's balance succeeds, leaves every balance and the token as they were,
\* and appends one event whose from and to are both the caller.
C27_SelfTransfer ==
    \A caller \in Principals, amount \in Amounts, now \in Times :
        (0 < amount /\ amount <= get_balance(caller)) =>
            LET r == transfer(caller, caller, amount, now)
            IN  /\ r.result = "Ok"
                /\ r.wallets = wallets
                /\ r.token = token
                /\ r.owner = owner
                /\ r.events = Append(transfer_events,
                                     [from |-> caller, to |-> caller,
                                      amount |-> amount, timestamp |-> now])

\* The ledger records a transfer from an identity to itself of less than the
\* identity holds.
C27_Witness ==
    /\ Len(transfer_events) > 0
    /\ LET e == transfer_events[1]
       IN  e.from = e.to /\ e.amount < get_balance(e.from)

\* What C28 asks of the calls that can be made in one state: create_wallet
\* succeeds exactly for a caller without a wallet, a failed create_wallet
\* leaves every cell (the balance received so far included) as it was, and a
\* successful create_wallet, transfer or mint leaves a wallet for the caller
\* or the recipient.
C28_WalletBlocksCreation ==
    \A x \in Principals :
        /\ LET r == create_wallet(x)
           IN  /\ r.result = "Ok" <=> x \notin DOMAIN wallets
               /\ r.result = "Ok" => x \in DOMAIN r.wallets
               /\ r.result # "Ok" =>
                     Untouched(r) /\ balance_in(r.wallets, x) = get_balance(x)
        /\ \A caller \in Principals, amount \in Amounts :
              /\ LET r == mint(caller, x, amount)
                 IN  r.result = "Ok" => x \in DOMAIN r.wallets
              /\ \A now \in Times :
                    LET r == transfer(caller, x, amount, now)
                    IN  r.result = "Ok" => x \in DOMAIN r.wallets

\* C28: create_wallet by x succeeds if and only if x has not created a wallet
\* before and has not received a successful transfer or mint: there are no
\* wallets at the start, a wallet once made stays, a wallet appears for x only
\* by a successful create_wallet by x or a successful transfer or mint to x,
\* and create_wallet succeeds exactly when the caller has no wallet; a failed
\* create_wallet keeps the balance the wallet has received.
C28_OnDemandBlocksCreation ==
    /\ DOMAIN wallets = {}
    /\ []C28_WalletBlocksCreation
    /\ [][/\ DOMAIN wallets \subseteq DOMAIN wallets'
          /\ \A x \in DOMAIN wallets' \ DOMAIN wallets :
                \/ LET r == create_wallet(x)
                   IN  r.result = "Ok" /\ wallets' = r.wallets
                \/ \E amount \in Amounts :
                      LET r == mint(owner, x, amount)
                      IN  r.result = "Ok" /\ wallets' = r.wallets /\ token' = r.token
                \/ \E caller \in Principals, amount \in Amounts, now \in Times :
                      LET r == transfer(caller, x, amount, now)
                      IN  /\ r.result = "Ok"
                          /\ wallets' = r.wallets
                          /\ transfer_events' = r.events]_vars

\* The only wallets are those of the sender and the recipient of the transfer
\* the ledger records, the recipient holds tokens and cannot create a wallet,
\* and a third identity still can.
C28_Witness ==
    /\ Len(transfer_events) > 0
    /\ LET e == transfer_events[1]
       IN  /\ e.from # e.to
           /\ DOMAIN wallets = {e.from, e.to}
           /\ get_balance(e.to) > 0
           /\ create_wallet(e.to).result = "Err"
    /\ \E x \in Principals \ DOMAIN wallets : create_wallet(x).result = "Ok"

\* C29: only transfer refuses a zero amount: the owner's mint of 0 succeeds,
\* changes no balance and not the token, and makes a wallet for the recipient
\* if it had none; burn of 0 succeeds and changes nothing for a caller with a
\* wallet and fails with SenderWalletNotFound for a caller without one.
C29_ZeroAmounts ==
    \A caller \in Principals, to \in Principals :
        /\ \A now \in Times : transfer(caller, to, 0, now).result = "InvalidAmount"
        /\ LET r == mint(owner, to, 0)
           IN  /\ r.result = "Ok"
               /\ r.token = token
               /\ \A p \in Principals : balance_in(r.wallets, p) = get_balance(p)
               /\ DOMAIN r.wallets = DOMAIN wallets \cup {to}
               /\ \A p \in DOMAIN wallets : r.wallets[p] = wallets[p]
               /\ r.events = transfer_events /\ r.owner = owner
        /\ LET r == burn(caller, 0)
           IN  IF caller \in DOMAIN wallets
               THEN r.result = "Ok" /\ Untouched(r)
               ELSE r.result = "SenderWalletNotFound" /\ Untouched(r)

\* A recipient without a wallet is there for the owner's mint of 0, and a
\* caller that holds tokens is there for a burn of 0.
C29_Witness ==
    /\ \E to \in Principals \ DOMAIN wallets :
          /\ mint(owner, to, 0).result = "Ok"
          /\ burn(to, 0).result = "SenderWalletNotFound"
    /\ \E caller \in DOMAIN wallets :
          get_balance(caller) > 0 /\ burn(caller, 0).result = "Ok"

\* The integer amount x 10^decimals fits the unsigned range.
ProductFits(amount, decimals) ==
    amount = 0 \/ (Pow10(decimals) <= UNITS_MAX /\ amount * Pow10(decimals) <= UNITS_MAX)

\* C30: to_token_units(amount, decimals) returns amount x 10^decimals when
\* that product fits the unsigned range and OverflowError when it does not,
\* also where 10^decimals alone does not fit; it returns no wrapped value and
\* does not abort.
C30_ToTokenUnits ==
    units.outcome.result \notin {"none", "called"} =>
        IF ProductFits(units.amount, units.decimals)
        THEN units.outcome = UnitsOk(units.amount * Pow10(units.decimals))
        ELSE units.outcome = UnitsOverflowError

\* A call with a power of ten that does not fit has returned.
C30_Witness ==
    /\ units.outcome.result \notin {"none", "called"}
    /\ units.amount > 0
    /\ Pow10(units.decimals) > UNITS_MAX

=============================================================================
